---- MODULE Spec2Model ----
(***************************************************************************)
(* One-way folder synchronisation (src/main.py).                           *)
(*                                                                         *)
(* A path string is a sequence of one-character strings, exactly what the  *)
(* program passes to os.path.join and str.replace.  The filesystem maps a  *)
(* resolved path (the sequence of its non-empty components, relative to    *)
(* the working directory) to "dir" or to the content of a regular file.    *)
(* Symbolic links and special files are not modelled.                      *)
(***************************************************************************)
EXTENDS Integers, Sequences, FiniteSets, TLC

VARIABLES fs, fs0, source, replica, pc, exc, stack, cwd, folders, files,
          log, prev, ticks, nfail

vars == <<fs, fs0, source, replica, pc, exc, stack, cwd, folders, files,
          log, prev, ticks, nfail>>

(***************************************************************************)
(* Bounds of the model.                                                    *)
(***************************************************************************)
\* entries below the two roots, both trees together
MaxEntries == 3
\* depth of an entry below its root
MaxDepth == 2
\* ticks of the driver loop
MaxTicks == 2
\* operations the environment makes fail (permission denied, disk full, ...)
MaxFail == 1

\* longest path string the operating system accepts (PATH_MAX, scaled down)
PathMax == 15
\* deepest nesting of os.walk the interpreter accepts (recursion limit, scaled down)
RecursionLimit == 4
\* entries of the outer tree when one root lies inside the other
MaxNestedEntries == 2

\* names of the entries of both trees
Names == {<<"s">>, <<"r">>}
\* file contents
Contents == {"A", "B"}
\* (--source-path, --replica-path) as given on the command line
RootPairs == { <<(<<"s">>), (<<"r">>)>>,
               <<(<<"a">>), (<<"b">>)>>,
               <<(<<"a", "/">>), (<<"b">>)>> }
\* roots of which one lies inside the other: the replica in the source, the
\* source in the replica
NestedRootPairs == { <<(<<"s">>), (<<"s", "/", "r">>)>>,
                     <<(<<"r", "/", "s">>), (<<"r">>)>> }

(***************************************************************************)
(* Strings and paths.                                                      *)
(***************************************************************************)
Max(S) == CHOOSE x \in S : \A y \in S : y <= x

\* str.replace(old, new): every non-overlapping occurrence, left to right
RECURSIVE StrReplace(_, _, _)
StrReplace(str, old, new) ==
    IF Len(str) < Len(old) \/ old = <<>> THEN str
    ELSE IF SubSeq(str, 1, Len(old)) = old
         THEN new \o StrReplace(SubSeq(str, Len(old) + 1, Len(str)), old, new)
         ELSE <<Head(str)>> \o StrReplace(Tail(str), old, new)

\* os.path.join(a, b) for a relative component b
PathJoin(a, b) ==
    IF a = <<>> \/ a[Len(a)] = "/" THEN a \o b ELSE a \o <<"/">> \o b

\* os.path.basename
Basename(str) ==
    LET idx == {i \in 1..Len(str) : str[i] = "/"}
    IN  IF idx = {} THEN str ELSE SubSeq(str, Max(idx) + 1, Len(str))

\* path resolution: the non-empty components of a path string
RECURSIVE CanonAcc(_, _)
CanonAcc(str, cur) ==
    IF str = <<>> THEN (IF cur = <<>> THEN <<>> ELSE <<cur>>)
    ELSE IF Head(str) = "/"
         THEN (IF cur = <<>> THEN <<>> ELSE <<cur>>) \o CanonAcc(Tail(str), <<>>)
         ELSE CanonAcc(Tail(str), Append(cur, Head(str)))

Canon(str) == CanonAcc(str, <<>>)

Parent(p) == SubSeq(p, 1, Len(p) - 1)

IsPrefix(p, q) == Len(p) <= Len(q) /\ SubSeq(q, 1, Len(p)) = p

(***************************************************************************)
(* The filesystem.                                                         *)
(***************************************************************************)
Exists(f, p) == p = <<>> \/ p \in DOMAIN f
IsDirC(f, p) == p = <<>> \/ (p \in DOMAIN f /\ f[p] = "dir")
IsFileC(f, p) == p \in DOMAIN f /\ f[p] # "dir"

\* os.path.isdir, os.path.isfile
isdir(f, str) == str # <<>> /\ Len(str) <= PathMax /\ IsDirC(f, Canon(str))
isfile(f, str) == str # <<>> /\ Len(str) <= PathMax /\ IsFileC(f, Canon(str))

Without(f, D) == [q \in DOMAIN f \ D |-> f[q]]
With(f, p, v) == [q \in DOMAIN f \cup {p} |-> IF q = p THEN v ELSE f[q]]
Below(f, p) == {q \in DOMAIN f : IsPrefix(p, q)}

\* os.mkdir
Mkdir(f, p) ==
    IF Exists(f, p) \/ ~IsDirC(f, Parent(p))
    THEN [ok |-> FALSE, fs |-> f]
    ELSE [ok |-> TRUE, fs |-> With(f, p, "dir")]

\* os.makedirs(name): the missing intermediate directories, then the leaf
RECURSIVE MakeDirsC(_, _)
MakeDirsC(f, p) ==
    IF Len(p) > 1 /\ ~Exists(f, Parent(p))
    THEN LET r == MakeDirsC(f, Parent(p))
         IN  IF r.ok THEN Mkdir(r.fs, p) ELSE r
    ELSE Mkdir(f, p)

makedirs(f, str) ==
    IF Len(str) > PathMax THEN [ok |-> FALSE, fs |-> f] ELSE MakeDirsC(f, Canon(str))

\* what a makedirs that fails part-way can leave: some of the missing
\* intermediate directories, never the leaf
PartialMakedirs(f, str) ==
    LET p == Canon(str)
    IN  {f} \cup { MakeDirsC(f, SubSeq(p, 1, k)).fs :
                      k \in {k \in 1..(Len(p) - 1) : ~Exists(f, SubSeq(p, 1, k))} }

\* the file shutil.copy2(src, dst) writes: inside dst when dst is a directory
CopyTarget(f, src, dst) ==
    IF isdir(f, dst) THEN PathJoin(dst, Basename(src)) ELSE dst

CopyDest(f, src, dst) == Canon(CopyTarget(f, src, dst))

\* shutil.copy2(src, dst)
copy2(f, src, dst) ==
    LET sp == Canon(src)
        dp == CopyDest(f, src, dst)
    IN  IF ~IsFileC(f, sp) \/ sp = dp \/ dp = <<>> \/ IsDirC(f, dp)
           \/ ~IsDirC(f, Parent(dp))
           \/ Len(src) > PathMax \/ Len(CopyTarget(f, src, dst)) > PathMax
        THEN [ok |-> FALSE, fs |-> f]
        ELSE [ok |-> TRUE, fs |-> With(f, dp, f[sp])]

\* what a copy that fails can leave: nothing changed (the open failed), or a
\* truncated destination (the write failed)
PartialCopy(f, src, dst) == {f, With(f, CopyDest(f, src, dst), "")}

\* shutil.rmtree(path)
rmtree(f, str) ==
    LET p == Canon(str)
    IN  IF p = <<>> \/ ~IsDirC(f, p) \/ Len(str) > PathMax
        THEN [ok |-> FALSE, fs |-> f]
        ELSE [ok |-> TRUE, fs |-> Without(f, Below(f, p))]

\* what a recursive removal that fails part-way can leave: the directory
\* itself stays, any part of its subtree may already be gone
PartialRmtree(f, str) ==
    LET p == Canon(str)
        sub == Below(f, p) \ {p}
    IN  { Without(f, R) : R \in { R \in SUBSET sub :
              \A q \in R : \A q2 \in sub : IsPrefix(q, q2) => q2 \in R } }

\* os.remove(path)
remove(f, str) ==
    LET p == Canon(str)
    IN  IF ~IsFileC(f, p) \/ Len(str) > PathMax
        THEN [ok |-> FALSE, fs |-> f]
        ELSE [ok |-> TRUE, fs |-> Without(f, {p})]

\* os.scandir as os.walk uses it: the names of the directories and of the
\* other entries of a directory
ListDirs(f, str) ==
    LET p == Canon(str)
    IN  {n \in Names : Append(p, n) \in DOMAIN f /\ f[Append(p, n)] = "dir"}
ListFiles(f, str) ==
    LET p == Canon(str)
    IN  {n \in Names : Append(p, n) \in DOMAIN f /\ f[Append(p, n)] # "dir"}

\* the orders in which a directory listing can come back
Perms(S) ==
    {q \in [1..Cardinality(S) -> S] : \A i, j \in 1..Cardinality(S) : q[i] = q[j] => i = j}

\* hashlib.md5(...).hexdigest(): distinct modelled contents have distinct digests
md5(c) == <<"md5", c>>

\* are_same_files, once both files have been opened and read
are_same_files(f, file1, file2) == md5(f[Canon(file1)]) = md5(f[Canon(file2)])

(***************************************************************************)
(* Initial states: a source tree and a replica tree below their roots.     *)
(***************************************************************************)
RECURSIVE SeqsUpTo(_)
SeqsUpTo(n) ==
    IF n = 0 THEN {<<>>}
    ELSE LET S == SeqsUpTo(n - 1)
         IN  S \cup {Append(q, x) : q \in {q \in S : Len(q) = n - 1}, x \in Names}

RelPaths == SeqsUpTo(MaxDepth) \ {<<>>}

\* a tree: the parent of every entry is a directory of the tree
Trees ==
    {t \in UNION {[D -> Contents \cup {"dir"}] :
                     D \in {D \in SUBSET RelPaths : Cardinality(D) <= MaxEntries}} :
        \A q \in DOMAIN t : Len(q) > 1 => (Parent(q) \in DOMAIN t /\ t[Parent(q)] = "dir")}

\* a root is a directory, a regular file, or missing
RootKinds == {"dir", "A", "none"}

Graft(root, kind, t) ==
    LET D == (IF kind = "none" THEN {} ELSE {root}) \cup {root \o q : q \in DOMAIN t}
    IN  [p \in D |-> IF p = root THEN kind ELSE t[SubSeq(p, Len(root) + 1, Len(p))]]

Merge(f, g) == [p \in DOMAIN f \cup DOMAIN g |-> IF p \in DOMAIN f THEN f[p] ELSE g[p]]

Init ==
    \E rp \in RootPairs, ks \in RootKinds, kr \in RootKinds, ts \in Trees, tr \in Trees :
        /\ Cardinality(DOMAIN ts) + Cardinality(DOMAIN tr) <= MaxEntries
        /\ ks # "dir" => DOMAIN ts = {}
        /\ kr # "dir" => DOMAIN tr = {}
        /\ source = rp[1]
        /\ replica = rp[2]
        /\ fs = Merge(Graft(Canon(rp[1]), ks, ts), Graft(Canon(rp[2]), kr, tr))
        /\ fs0 = fs
        /\ pc = "idle"
        /\ exc = "none"
        /\ stack = <<>>
        /\ cwd = <<>>
        /\ folders = <<>>
        /\ files = <<>>
        /\ log = <<>>
        /\ prev = <<>>
        /\ ticks = 0
        /\ nfail = 0

(***************************************************************************)
(* The driver and sync_folders.                                            *)
(***************************************************************************)
Info(op, src, dst) == [lvl |-> "INFO", op |-> op, src |-> src, dst |-> dst]
Error(op, src, dst) == [lvl |-> "ERROR", op |-> op, src |-> src, dst |-> dst]

\* sync_folders without its check of the replica root
RootsValidSourceOnly == isdir(fs, source)

\* the two checks at the head of sync_folders
RootsValid == isdir(fs, source) /\ isdir(fs, replica)

\* the environment may make one more operation fail
MayFail == nfail < MaxFail

\* main calls sync_folders: ValueError on a bad root, else the Comparator starts
SyncFolders ==
    /\ pc = "idle"
    /\ ticks < MaxTicks
    /\ fs0' = fs
    /\ prev' = log
    /\ log' = <<>>
    /\ IF RootsValid
       THEN /\ pc' = "add"
            /\ stack' = <<source>>
            /\ exc' = exc
       ELSE /\ pc' = "fatal"
            /\ exc' = "ValueError"
            /\ stack' = stack
    /\ UNCHANGED <<fs, source, replica, cwd, folders, files, ticks, nfail>>

\* os.walk: listing of the next directory, its sub-directories to be walked
\* right after it; a directory that cannot be listed is skipped.  An os.walk
\* that recurses (Python before 3.12) raises RecursionError once nested deeper
\* than the interpreter allows, and nothing catches it.
Walk(phase) ==
    /\ pc = phase
    /\ folders = <<>>
    /\ files = <<>>
    /\ stack # <<>>
    /\ LET top == Head(stack)
           depth == Len(Canon(top)) - Len(Canon(IF phase = "add" THEN source ELSE replica))
       IN  \/ /\ IF isdir(fs, top)
                THEN \E ds \in Perms(ListDirs(fs, top)), nd \in Perms(ListFiles(fs, top)) :
                        /\ cwd' = top
                        /\ folders' = ds
                        /\ files' = nd
                        /\ stack' = [i \in 1..Len(ds) |-> PathJoin(top, ds[i])] \o Tail(stack)
                ELSE /\ stack' = Tail(stack)
                     /\ UNCHANGED <<cwd, folders, files>>
              /\ UNCHANGED <<pc, exc>>
           \/ /\ depth > RecursionLimit
              /\ pc' = "fatal"
              /\ exc' = "RecursionError"
              /\ UNCHANGED <<stack, cwd, folders, files>>
    /\ UNCHANGED <<fs, fs0, source, replica, log, prev, ticks, nfail>>

WalkSource == Walk("add")
WalkReplica == Walk("remove")

\* add_files_to_replica, one source folder
AddFolder ==
    /\ pc = "add"
    /\ folders # <<>>
    /\ LET source_folder_path == PathJoin(cwd, Head(folders))
           replica_folder_path == StrReplace(source_folder_path, source, replica)
           r == makedirs(fs, replica_folder_path)
       IN  IF ~isdir(fs, replica_folder_path)
           THEN \/ /\ r.ok
                   /\ fs' = r.fs
                   /\ log' = Append(log, Info("mkdir", <<>>, replica_folder_path))
                   /\ nfail' = nfail
                \/ /\ ~r.ok \/ MayFail
                   /\ fs' \in (IF r.ok THEN PartialMakedirs(fs, replica_folder_path) ELSE {r.fs})
                   /\ log' = log \o <<Info("mkdir", <<>>, replica_folder_path),
                                      Error("mkdir", <<>>, replica_folder_path)>>
                   /\ nfail' = IF r.ok THEN nfail + 1 ELSE nfail
           ELSE UNCHANGED <<fs, log, nfail>>
    /\ folders' = Tail(folders)
    /\ UNCHANGED <<fs0, source, replica, pc, exc, stack, cwd, files, prev, ticks>>

\* add_files_to_replica, one source file
AddFile ==
    /\ pc = "add"
    /\ folders = <<>>
    /\ files # <<>>
    /\ LET source_file_path == PathJoin(cwd, Head(files))
           replica_file_path == StrReplace(source_file_path, source, replica)
           r == copy2(fs, source_file_path, replica_file_path)
           Copy == \/ /\ r.ok
                      /\ fs' = r.fs
                      /\ log' = Append(log, Info("copy", source_file_path, replica_file_path))
                      /\ nfail' = nfail
                   \/ /\ ~r.ok \/ MayFail
                      /\ fs' \in (IF r.ok
                                  THEN PartialCopy(fs, source_file_path, replica_file_path)
                                  ELSE {fs})
                      /\ log' = log \o <<Info("copy", source_file_path, replica_file_path),
                                         Error("copy", source_file_path, replica_file_path)>>
                      /\ nfail' = IF r.ok THEN nfail + 1 ELSE nfail
           Continue == /\ files' = Tail(files)
                       /\ UNCHANGED <<pc, exc>>
       IN  IF ~isfile(fs, replica_file_path)
           THEN Copy /\ Continue
           ELSE \/ \* open or read fails in are_same_files: nothing catches it
                   /\ MayFail \/ ~isfile(fs, source_file_path)
                   /\ pc' = "fatal"
                   /\ exc' = "OSError"
                   /\ nfail' = IF isfile(fs, source_file_path) THEN nfail + 1 ELSE nfail
                   /\ UNCHANGED <<fs, log, files>>
                \/ /\ isfile(fs, source_file_path)
                   /\ IF are_same_files(fs, source_file_path, replica_file_path)
                      THEN UNCHANGED <<fs, log, nfail>>
                      ELSE Copy
                   /\ Continue
    /\ UNCHANGED <<fs0, source, replica, stack, cwd, folders, prev, ticks>>

\* the Pruner started while directories of the source are still to be walked
AddDoneEarly ==
    /\ pc = "add"
    /\ folders = <<>>
    /\ files = <<>>
    /\ pc' = "remove"
    /\ stack' = <<replica>>
    /\ UNCHANGED <<fs, fs0, source, replica, exc, cwd, folders, files, log, prev, ticks, nfail>>

\* add_files_to_replica returns, remove_files_from_replica starts
AddDone ==
    /\ pc = "add"
    /\ folders = <<>>
    /\ files = <<>>
    /\ stack = <<>>
    /\ pc' = "remove"
    /\ stack' = <<replica>>
    /\ UNCHANGED <<fs, fs0, source, replica, exc, cwd, folders, files, log, prev, ticks, nfail>>

\* remove_files_from_replica, one replica folder
RemoveFolder ==
    /\ pc = "remove"
    /\ folders # <<>>
    /\ LET replica_folder_path == PathJoin(cwd, Head(folders))
           source_folder_path == StrReplace(replica_folder_path, replica, source)
           r == rmtree(fs, replica_folder_path)
       IN  IF ~isdir(fs, source_folder_path)
           THEN \/ /\ r.ok
                   /\ fs' = r.fs
                   /\ log' = Append(log, Info("rmtree", <<>>, replica_folder_path))
                   /\ nfail' = nfail
                \/ /\ ~r.ok \/ MayFail
                   /\ fs' \in (IF r.ok THEN PartialRmtree(fs, replica_folder_path) ELSE {fs})
                   /\ log' = log \o <<Info("rmtree", <<>>, replica_folder_path),
                                      Error("rmtree", <<>>, replica_folder_path)>>
                   /\ nfail' = IF r.ok THEN nfail + 1 ELSE nfail
           ELSE UNCHANGED <<fs, log, nfail>>
    /\ folders' = Tail(folders)
    /\ UNCHANGED <<fs0, source, replica, pc, exc, stack, cwd, files, prev, ticks>>

\* remove_files_from_replica with the try around the whole loop over the files:
\* a failed removal ends the loop
RemoveFileAbort ==
    /\ pc = "remove"
    /\ folders = <<>>
    /\ files # <<>>
    /\ LET replica_file_path == PathJoin(cwd, Head(files))
           source_file_path == StrReplace(replica_file_path, replica, source)
           r == remove(fs, replica_file_path)
       IN  IF ~isfile(fs, source_file_path)
           THEN \/ /\ r.ok
                   /\ fs' = r.fs
                   /\ log' = Append(log, Info("remove", <<>>, replica_file_path))
                   /\ nfail' = nfail
                   /\ files' = Tail(files)
                \/ /\ ~r.ok \/ MayFail
                   /\ fs' = fs
                   /\ log' = log \o <<Info("remove", <<>>, replica_file_path),
                                      Error("remove", <<>>, replica_file_path)>>
                   /\ nfail' = IF r.ok THEN nfail + 1 ELSE nfail
                   /\ files' = <<>>
           ELSE /\ files' = Tail(files)
                /\ UNCHANGED <<fs, log, nfail>>
    /\ UNCHANGED <<fs0, source, replica, pc, exc, stack, cwd, folders, prev, ticks>>

\* remove_files_from_replica, one replica file
RemoveFile ==
    /\ pc = "remove"
    /\ folders = <<>>
    /\ files # <<>>
    /\ LET replica_file_path == PathJoin(cwd, Head(files))
           source_file_path == StrReplace(replica_file_path, replica, source)
           r == remove(fs, replica_file_path)
       IN  IF ~isfile(fs, source_file_path)
           THEN \/ /\ r.ok
                   /\ fs' = r.fs
                   /\ log' = Append(log, Info("remove", <<>>, replica_file_path))
                   /\ nfail' = nfail
                \/ /\ ~r.ok \/ MayFail
                   /\ fs' = fs
                   /\ log' = log \o <<Info("remove", <<>>, replica_file_path),
                                      Error("remove", <<>>, replica_file_path)>>
                   /\ nfail' = IF r.ok THEN nfail + 1 ELSE nfail
           ELSE UNCHANGED <<fs, log, nfail>>
    /\ files' = Tail(files)
    /\ UNCHANGED <<fs0, source, replica, pc, exc, stack, cwd, folders, prev, ticks>>

\* sync_folders returns and main sleeps until the next tick
Sleep ==
    /\ pc = "remove"
    /\ folders = <<>>
    /\ files = <<>>
    /\ stack = <<>>
    /\ pc' = "idle"
    /\ ticks' = ticks + 1
    /\ UNCHANGED <<fs, fs0, source, replica, exc, stack, cwd, folders, files, log, prev, nfail>>

Next ==
    \/ SyncFolders
    \/ WalkSource
    \/ AddFolder
    \/ AddFile
    \/ AddDone
    \/ WalkReplica
    \/ RemoveFolder
    \/ RemoveFile
    \/ Sleep

Spec == Init /\ [][Next]_vars

\* one root inside the other: the tree of the outer root holds the inner root;
\* the environment makes no operation fail
InitNested ==
    \E rp \in NestedRootPairs, t \in {u \in Trees : Cardinality(DOMAIN u) <= MaxNestedEntries} :
        LET outer == IF Len(rp[1]) < Len(rp[2]) THEN rp[1] ELSE rp[2]
            inner == IF Len(rp[1]) < Len(rp[2]) THEN rp[2] ELSE rp[1]
            name == <<Basename(inner)>>
        IN  /\ name \in DOMAIN t
            /\ t[name] = "dir"
            /\ source = rp[1]
            /\ replica = rp[2]
            /\ fs = Graft(Canon(outer), "dir", t)
            /\ fs0 = fs
            /\ pc = "idle"
            /\ exc = "none"
            /\ stack = <<>>
            /\ cwd = <<>>
            /\ folders = <<>>
            /\ files = <<>>
            /\ log = <<>>
            /\ prev = <<>>
            /\ ticks = 0
            /\ nfail = MaxFail

\* main runs on its own thread and is never held up: every step that can be
\* taken is taken
SpecNested == InitNested /\ [][Next]_vars /\ WF_vars(Next)

(***************************************************************************)
(* A tick as a function of the filesystem: what sync_folders leaves when   *)
(* the environment makes nothing fail, for every order of the listings.    *)
(***************************************************************************)
\* lines 69-77 for one source folder
AddFolderStep(f, source_folder_path) ==
    LET replica_folder_path == StrReplace(source_folder_path, source, replica)
    IN  IF ~isdir(f, replica_folder_path) THEN makedirs(f, replica_folder_path).fs ELSE f

\* lines 80-88 for one source file
AddFileStep(f, source_file_path) ==
    LET replica_file_path == StrReplace(source_file_path, source, replica)
    IN  IF ~isfile(f, replica_file_path)
        THEN copy2(f, source_file_path, replica_file_path).fs
        ELSE IF isfile(f, source_file_path)
                  /\ are_same_files(f, source_file_path, replica_file_path)
             THEN f
             ELSE copy2(f, source_file_path, replica_file_path).fs

\* lines 101-109 for one replica folder
RemoveFolderStep(f, replica_folder_path) ==
    LET source_folder_path == StrReplace(replica_folder_path, replica, source)
    IN  IF ~isdir(f, source_folder_path) THEN rmtree(f, replica_folder_path).fs ELSE f

\* lines 112-120 for one replica file
RemoveFileStep(f, replica_file_path) ==
    LET source_file_path == StrReplace(replica_file_path, replica, source)
    IN  IF ~isfile(f, source_file_path) THEN remove(f, replica_file_path).fs ELSE f

\* the body of the for loop over os.walk: the folders, then the files
RECURSIVE LoopBody(_, _, _, _, _)
LoopBody(phase, f, top, ds, nd) ==
    IF ds # <<>>
    THEN LoopBody(phase,
                  IF phase = "add" THEN AddFolderStep(f, PathJoin(top, Head(ds)))
                                   ELSE RemoveFolderStep(f, PathJoin(top, Head(ds))),
                  top, Tail(ds), nd)
    ELSE IF nd # <<>>
         THEN LoopBody(phase,
                       IF phase = "add" THEN AddFileStep(f, PathJoin(top, Head(nd)))
                                        ELSE RemoveFileStep(f, PathJoin(top, Head(nd))),
                       top, ds, Tail(nd))
         ELSE f

\* the whole loop over os.walk, from the directories still to be walked
RECURSIVE WalkAll(_, _, _)
WalkAll(phase, f, st) ==
    IF st = <<>> THEN {f}
    ELSE LET top == Head(st)
         IN  IF ~isdir(f, top) THEN WalkAll(phase, f, Tail(st))
             ELSE UNION { WalkAll(phase, LoopBody(phase, f, top, ds, nd),
                                  [i \in 1..Len(ds) |-> PathJoin(top, ds[i])] \o Tail(st)) :
                          ds \in Perms(ListDirs(f, top)), nd \in Perms(ListFiles(f, top)) }

\* add_files_to_replica, then remove_files_from_replica
FailureFreeTick(f) ==
    UNION { WalkAll("remove", g, <<replica>>) : g \in WalkAll("add", f, <<source>>) }

(***************************************************************************)
(* Vocabulary of the properties.                                           *)
(***************************************************************************)
SourceRoot == Canon(source)
ReplicaRoot == Canon(replica)

Under(root, p) == IsPrefix(root, p) /\ p # root
SourceEntries(f) == {p \in DOMAIN f : Under(SourceRoot, p)}
ReplicaEntries(f) == {p \in DOMAIN f : Under(ReplicaRoot, p)}

\* the mapped path: the root prefix substituted, the relative part kept
MappedPath(p) == ReplicaRoot \o SubSeq(p, Len(SourceRoot) + 1, Len(p))
InverseMappedPath(q) == SourceRoot \o SubSeq(q, Len(ReplicaRoot) + 1, Len(q))

SameType(f, p, q) == (IsDirC(f, p) /\ IsDirC(f, q)) \/ (IsFileC(f, p) /\ IsFileC(f, q))

NoError(l) == \A i \in 1..Len(l) : l[i].lvl # "ERROR"
NoErrorOf(l, ops) == \A i \in 1..Len(l) : l[i].lvl = "ERROR" => l[i].op \notin ops

\* a tick has run to its end and the driver sleeps
TickDone == pc = "idle" /\ ticks >= 1

\* the replica is exactly the mapped image of the source
InSync(f) ==
    /\ \A p \in SourceEntries(f) :
          IF f[p] = "dir" THEN IsDirC(f, MappedPath(p))
          ELSE IsFileC(f, MappedPath(p)) /\ f[MappedPath(p)] = f[p]
    /\ \A q \in ReplicaEntries(f) : InverseMappedPath(q) \in SourceEntries(f)

\* the entry the Comparator or the Pruner is about to handle
AtEntry == (pc = "add" \/ pc = "remove") /\ (folders # <<>> \/ files # <<>>)
CurrentPath == PathJoin(cwd, IF folders # <<>> THEN Head(folders) ELSE Head(files))

(***************************************************************************)
(* Properties.                                                             *)
(***************************************************************************)

\* C1 (as claimed): after a tick in which no operation failed, the replica is
\* exactly the mapped image of the source.
C1_Convergence == (TickDone /\ NoError(log)) => InSync(fs)

\* C2 (as claimed): the second of two ticks in a row performs no action and
\* logs no line (read with no operation failing in either tick).
C2_Idempotence == (TickDone /\ ticks >= 2 /\ NoError(prev) /\ nfail = 0) => log = <<>>

\* C3 (as claimed): every creation, copy destination and removal of a tick is
\* under the replica root, and the source tree is the same as at tick start.
C3_NoSourceMutation ==
    /\ \A i \in 1..Len(log) : Under(ReplicaRoot, Canon(log[i].dst))
    /\ \A p \in DOMAIN fs \cup DOMAIN fs0 :
          Under(SourceRoot, p) \/ p = SourceRoot =>
              (p \in DOMAIN fs /\ p \in DOMAIN fs0 /\ fs[p] = fs0[p])

\* C4 (as claimed): a replica entry without a source counterpart at the
\* inverse-mapped path at tick start is gone after a tick without removal failure.
C4_OrphanRemoval ==
    (TickDone /\ NoErrorOf(log, {"rmtree", "remove"})) =>
        \A q \in ReplicaEntries(fs0) :
            InverseMappedPath(q) \notin DOMAIN fs0 => q \notin DOMAIN fs

\* C5 (as claimed): a source file whose mapped replica path held a file with
\* other bytes at tick start has its content there after a tick without copy failure.
C5_ContentChange ==
    (TickDone /\ NoErrorOf(log, {"copy"})) =>
        \A p \in SourceEntries(fs0) :
            (IsFileC(fs0, p) /\ IsFileC(fs0, MappedPath(p)) /\ fs0[MappedPath(p)] # fs0[p])
                => (IsFileC(fs, MappedPath(p)) /\ fs[MappedPath(p)] = fs0[p])

\* C6 (as claimed): the replica path computed for a source entry is the replica
\* root followed by the entry's relative path, and the inverse mapping of that
\* path gives the entry back.
C6_PathMapping ==
    (AtEntry /\ pc = "add") =>
        LET rp == StrReplace(CurrentPath, source, replica)
        IN  /\ Canon(rp) = MappedPath(Canon(CurrentPath))
            /\ Canon(StrReplace(rp, replica, source)) = Canon(CurrentPath)

\* C7 (as claimed): the driver ends fatally only when a root was not an
\* existing directory at tick start.
C7_ValidRootsNeverFatal ==
    pc = "fatal" => ~(isdir(fs0, source) /\ isdir(fs0, replica))

\* C8: with a root that is not an existing directory at tick start, sync_folders
\* raises before any filesystem operation or log line, and the driver takes no
\* further step afterwards.
C8_FatalPrecondition ==
    [][ /\ pc # "fatal"
        /\ (pc = "idle" /\ ~(isdir(fs, source) /\ isdir(fs, replica))) =>
               (pc' = "fatal" /\ exc' = "ValueError" /\ fs' = fs /\ log' = <<>>) ]_vars

C8_Witness ==
    /\ pc = "fatal"
    /\ exc = "ValueError"
    /\ isdir(fs, source)
    /\ ~isdir(fs, replica)
    /\ SourceEntries(fs) # {}

\* C9 (as claimed): when are_same_files cannot open or read a file, the copy of
\* that file is attempted and the tick goes on.
C9_OracleFailOpen ==
    exc = "OSError" =>
        /\ pc # "fatal"
        /\ \E i \in 1..Len(log) : log[i].op = "copy" /\ log[i].src = CurrentPath

\* C10 (as claimed): the Pruner never removes a replica entry that is the mapped
\* counterpart of an existing source entry of the same type.
C10_NoNeededEntryRemoved ==
    [][ pc = "remove" =>
            \A q \in ReplicaEntries(fs) :
                (q \notin DOMAIN fs' /\ IsPrefix(SourceRoot, InverseMappedPath(q)))
                    => ~SameType(fs, InverseMappedPath(q), q) ]_vars

\* add_files_to_replica has returned and remove_files_from_replica has not
\* listed anything yet
ComparatorDone == pc = "remove" /\ stack = <<replica>> /\ folders = <<>> /\ files = <<>>

Creates == {"mkdir", "copy"}
Removals == {"rmtree", "remove"}

\* the replica entry q mirrors what the source holds at its inverse-mapped path
InSyncAt(f, q) ==
    IF InverseMappedPath(q) \in DOMAIN f
    THEN /\ SameType(f, InverseMappedPath(q), q)
         /\ IsFileC(f, q) => f[q] = f[InverseMappedPath(q)]
    ELSE q \notin DOMAIN f

\* C11 (as claimed): a source directory whose mapped replica path was absent or
\* a regular file at tick start has a directory there when the Comparator has
\* finished (read with no operation made to fail by the environment).
C11_DirOverNonDir ==
    (ComparatorDone /\ nfail = 0) =>
        \A p \in SourceEntries(fs0) :
            (fs0[p] = "dir" /\ ~IsDirC(fs0, MappedPath(p))) => IsDirC(fs, MappedPath(p))

\* C13 (as claimed): once the creation of a replica directory has failed, no
\* directory creation and no file copy is attempted beneath it in that tick.
C13_FailedMkdirSkipsSubtree ==
    \A i \in 1..Len(log) :
        (log[i].lvl = "ERROR" /\ log[i].op = "mkdir") =>
            \A j \in (i + 1)..Len(log) :
                ~(log[j].op \in Creates /\ Under(Canon(log[i].dst), Canon(log[j].dst)))

\* C14 (as claimed): after the one recursive removal issued on an orphan replica
\* directory, the Pruner neither lists that directory nor touches anything at or
\* beneath it in that tick, whether the removal succeeded or not.
C14_RmtreeWithoutDescent ==
    \A i \in 1..Len(log) :
        (log[i].lvl = "INFO" /\ log[i].op = "rmtree") =>
            /\ \A j \in (i + 1)..Len(log) :
                  IsPrefix(Canon(log[i].dst), Canon(log[j].dst)) =>
                      (j = i + 1 /\ log[j] = Error("rmtree", <<>>, log[i].dst))
            /\ ~(pc = "remove" /\ IsPrefix(Canon(log[i].dst), Canon(cwd)))

\* C16 (as claimed): an operation that failed in a tick is not attempted again in
\* that tick, and after the next tick, in which nothing fails, the entry it was
\* about is in sync.
C16_RetryNextTick ==
    /\ \A i \in 1..Len(log) :
          (log[i].lvl = "ERROR" /\ log[i].op # "mkdir") =>
              \A j \in (i + 1)..Len(log) :
                  ~(log[j].op = log[i].op /\ log[j].src = log[i].src /\ log[j].dst = log[i].dst)
    /\ (TickDone /\ ticks >= 2 /\ NoError(log)) =>
          \A i \in 1..Len(prev) :
              prev[i].lvl = "ERROR" =>
                  CASE prev[i].op = "copy" ->
                         /\ IsFileC(fs, MappedPath(Canon(prev[i].src)))
                         /\ fs[MappedPath(Canon(prev[i].src))] = fs[Canon(prev[i].src)]
                    [] prev[i].op = "mkdir" ->
                         \A p \in SourceEntries(fs) :
                             (fs[p] = "dir" /\ MappedPath(p) = Canon(prev[i].dst))
                                 => IsDirC(fs, MappedPath(p))
                    [] OTHER -> InSyncAt(fs, Canon(prev[i].dst))

\* C17 (as claimed): a source file whose mapped replica path held an identical
\* file at tick start is neither copied nor removed in the tick, a source
\* directory whose mapped replica path was a directory is neither created nor
\* removed, and with both trees empty the tick logs nothing.
C17_UnchangedLeftAlone ==
    pc \in {"add", "remove", "idle"} =>
        /\ \A p \in SourceEntries(fs0) :
              LET q == MappedPath(p)
              IN  /\ (IsFileC(fs0, p) /\ IsFileC(fs0, q) /\ fs0[q] = fs0[p]) =>
                        \A i \in 1..Len(log) :
                            /\ ~(log[i].op = "copy" /\ Canon(log[i].src) = p)
                            /\ ~(log[i].op \in Removals /\ IsPrefix(Canon(log[i].dst), q))
                  /\ (IsDirC(fs0, p) /\ IsDirC(fs0, q)) =>
                        \A i \in 1..Len(log) :
                            /\ ~(log[i].op = "mkdir" /\ Canon(log[i].dst) = q)
                            /\ ~(log[i].op \in Removals /\ IsPrefix(Canon(log[i].dst), q))
        /\ (SourceEntries(fs0) = {} /\ ReplicaEntries(fs0) = {}) => log = <<>>

\* C18 (as claimed): a source file whose mapped replica path held a directory at
\* tick start is a regular file with the same content there after a tick in
\* which nothing failed, and nothing of the directory remains.
C18_FileOverDir ==
    (TickDone /\ NoError(log)) =>
        \A p \in SourceEntries(fs0) :
            (IsFileC(fs0, p) /\ IsDirC(fs0, MappedPath(p))) =>
                /\ IsFileC(fs, MappedPath(p))
                /\ fs[MappedPath(p)] = fs0[p]
                /\ Below(fs, MappedPath(p)) = {MappedPath(p)}

\* the replica paths the ERROR lines of a log are about
FailedPaths(l) == {Canon(l[i].dst) : i \in {i \in 1..Len(l) : l[i].lvl = "ERROR"}}

\* the path q is neither a failed entry nor beneath one
AwayFrom(P, q) == \A t \in P : ~IsPrefix(t, q)

\* C12: when operations of a tick fail, each failure is logged as one
\* error right after the line of its own operation, and everything that is not
\* at or beneath a failed entry ends the tick as in a tick from the same
\* filesystem in which the environment makes nothing fail.
C12_FailureIsolation ==
    TickDone =>
        /\ \A i \in 1..Len(log) :
              log[i].lvl = "ERROR" =>
                  (i > 1 /\ log[i - 1] = Info(log[i].op, log[i].src, log[i].dst))
        /\ \E g \in FailureFreeTick(fs0) :
              \A q \in DOMAIN fs \cup DOMAIN g :
                  AwayFrom(FailedPaths(log), q) =>
                      (q \in DOMAIN fs /\ q \in DOMAIN g /\ fs[q] = g[q])

\* a removal failed and another entry was handled after it in the same tick
C12_Witness ==
    /\ TickDone
    /\ \E i \in 1..Len(log) : \E j \in (i + 1)..Len(log) :
          /\ log[i].lvl = "ERROR"
          /\ log[i].op \in Removals
          /\ log[j].lvl = "INFO"
          /\ ~IsPrefix(Canon(log[i].dst), Canon(log[j].dst))

\* C15: the Pruner starts only when the walk of the source is exhausted, every
\* creation and copy is logged by the Comparator and every removal by the Pruner,
\* so that no removal of a tick is followed by a creation or a copy.
C15_ComparatorBeforePruner ==
    [][ /\ (pc' = "remove" /\ pc # "remove") =>
               (pc = "add" /\ stack = <<>> /\ folders = <<>> /\ files = <<>>)
        /\ pc = "add" =>
               (/\ \A i \in (Len(log) + 1)..Len(log') : log'[i].op \in Creates
                /\ DOMAIN fs \subseteq DOMAIN fs')
        /\ pc = "remove" =>
               (/\ \A i \in (Len(log) + 1)..Len(log') : log'[i].op \in Removals
                /\ DOMAIN fs' \subseteq DOMAIN fs)
        /\ \A i \in 1..Len(log') : \A j \in (i + 1)..Len(log') :
               log'[i].op \in Removals => log'[j].op \notin Creates ]_vars

\* a tick in which the Comparator copied or created and the Pruner removed
C15_Witness ==
    /\ TickDone
    /\ \E i \in 1..Len(log) : log[i].op \in Creates
    /\ \E j \in 1..Len(log) : log[j].op \in Removals

\* the function of a tick agrees with the steps of a tick
FailureFreeTickAgrees == (TickDone /\ NoError(log)) => fs \in FailureFreeTick(fs0)

\* operations a tick has started so far
Operations(l) == {i \in 1..Len(l) : l[i].lvl = "INFO"}

\* C19 (as claimed): whatever the position of the two roots, one inside the
\* other included, a tick comes to its end: it starts no more than one
\* creation and one removal for each entry the trees held when it began, and
\* the walk never dies of its own nesting, so that the driver sleeps again.
C19_TickTerminates ==
    /\ Cardinality(Operations(log)) <= 2 * Cardinality(DOMAIN fs0)
    /\ exc # "RecursionError"

====
